---- MODULE Spec2Model ----
(***************************************************************************)
(* Request lifecycle of the MiniMax MCP servers: configuration resolution *)
(* and resilient dispatch.  MCPRestServer (src/src/mcp-rest-server.ts)    *)
(* resolves a Configuration per call-tool request and runs the tool       *)
(* handlers with their recursive retry; MCPServer (src/src/mcp-server.ts) *)
(* holds one Configuration and a set of capability APIs that updateConfig *)
(* rebuilds.                                                               *)
(***************************************************************************)
EXTENDS Integers, Sequences, FiniteSets, TLC

VARIABLES
    heap,              \* the Configuration objects allocated so far, by object id
    restConfig,        \* MCPRestServer.config        (object id, 0 before construction)
    restApi,           \* MCPRestServer.api           (id of the Configuration it was built from)
    restMediaService,  \* MCPRestServer.mediaService  (id of the api it wraps)
    inv,               \* the REST call-tool invocations
    stdioConfig,       \* MCPServer.config            (object id, 0 before construction)
    stdioApis,         \* MCPServer.api and the seven capability APIs
    call,              \* the MCPServer tool call
    startup,           \* MCPServer.start(): how it completed, the transport connected
    updates,           \* the updateConfig calls made so far, in order
    helperCall         \* the call of a private helper: its name, input and completion

vars == <<heap, restConfig, restApi, restMediaService, inv,
          stdioConfig, stdioApis, call, startup, updates, helperCall>>

restVars == <<restConfig, restApi, restMediaService, inv>>
stdioVars == <<stdioConfig, stdioApis, call, startup>>

-----------------------------------------------------------------------------
(* Bounds of the model *)

\* updateConfig calls in one behaviour
MaxUpdates == 2

-----------------------------------------------------------------------------
(* Program constants *)

MAX_RETRY_ATTEMPTS == 3
RETRY_DELAY == 1000

TRANSPORT_MODE_REST == "rest"
DEFAULT_SERVER_PORT == "3000"
DEFAULT_SERVER_ENDPOINT == "/rest"
RESOURCE_MODE_URL == "url"

-----------------------------------------------------------------------------
(* JavaScript values.  A property is a string, or undefined; an object is *)
(* a function from its own keys to their values.                          *)

UNDEF == "<undefined>"

Truthy(v) == v # UNDEF /\ v # ""

EmptyObj == [k \in {} |-> UNDEF]

\* o[k], undefined when o has no own key k
Get(o, k) == IF k \in DOMAIN o THEN o[k] ELSE UNDEF

\* { ...a, ...b }: every own key of b, an undefined-valued one included, wins
SpreadFn(a, b) ==
    [k \in (DOMAIN a) \cup (DOMAIN b) |-> IF k \in DOMAIN b THEN b[k] ELSE a[k]]

\* 2^n
RECURSIVE Pow2(_)
Pow2(n) == IF n <= 0 THEN 1 ELSE 2 * Pow2(n - 1)

TopKeys == {"apiKey", "apiHost", "basePath", "resourceMode"}
ServerKeys == {"mode", "port", "endpoint"}

(* A Configuration object (Config / Partial<Config>): its top-level string *)
(* properties, and its `server` property: absent, undefined or an object. *)
MkConfig(top, srvSt, srv) == [top |-> top, srvSt |-> srvSt, srv |-> srv]

NoServer == "absent"

Field(c, k) == Get(c.top, k)
HasServer(c) == c.srvSt = "object"
ServerField(c, k) == IF HasServer(c) THEN Get(c.srv, k) ELSE UNDEF

\* { ...a, ...b } of two Configuration objects (the nested server is one property)
SpreadConfig(a, b) ==
    MkConfig(SpreadFn(a.top, b.top),
             IF b.srvSt # NoServer THEN b.srvSt ELSE a.srvSt,
             IF b.srvSt # NoServer THEN b.srv ELSE a.srv)

-----------------------------------------------------------------------------
(* ConfigManager (config/ConfigManager.ts), after the resolver and the    *)
(* extractor of the specification, sections 4.1 and 4.2.                   *)

\* a source defines a field when the key is present and not undefined
Defines(f, k) == k \in DOMAIN f /\ f[k] # UNDEF

\* field-by-field override: the higher source's defined fields win
MergeFn(high, low) ==
    [k \in (DOMAIN low) \cup {x \in DOMAIN high : high[x] # UNDEF} |->
        IF Defines(high, k) THEN high[k] ELSE low[k]]

\* ConfigManager.getConfig(explicit, baseline): a new Configuration object;
\* top-level fields replaced by the defined ones, server merged key by key
GetConfig(explicit, baseline) ==
    MkConfig(MergeFn(explicit.top, baseline.top),
             IF HasServer(explicit) THEN "object" ELSE baseline.srvSt,
             IF HasServer(explicit)
             THEN (IF HasServer(baseline) THEN MergeFn(explicit.srv, baseline.srv)
                                          ELSE explicit.srv)
             ELSE baseline.srv)

\* the leaf keys of an auth fragment and the Configuration field each maps to
AuthLeaf == [api_key |-> "apiKey", apiKey |-> "apiKey", api_host |-> "apiHost",
             base_path |-> "basePath", resource_mode |-> "resourceMode"]

\* ConfigManager.extractConfigFromMetaAuth(metaAuth): recognized keys only,
\* api_key before apiKey
ExtractConfigFromMetaAuth(auth) ==
    LET known == {k \in DOMAIN auth : k \in DOMAIN AuthLeaf /\ Truthy(auth[k])}
        fields == {AuthLeaf[k] : k \in known}
        pick(fld) == IF fld = "apiKey" /\ "api_key" \in known THEN auth["api_key"]
                     ELSE auth[CHOOSE k \in known : AuthLeaf[k] = fld]
    IN  MkConfig([fld \in fields |-> pick(fld)], NoServer, EmptyObj)

-----------------------------------------------------------------------------
(* Requests: the value found at params._meta.auth and at params.meta.auth *)

AuthUndefined == [t |-> "undefined", f |-> EmptyObj]
AuthObject(f) == [t |-> "object", f |-> f]
AuthString == [t |-> "string", f |-> EmptyObj]    \* a non-empty string
AuthNull == [t |-> "null", f |-> EmptyObj]
\* an object whose properties cannot be read (its getters throw)
AuthHostile == [t |-> "hostile", f |-> EmptyObj]

AuthTruthy(a) == a.t \notin {"undefined", "null"}

\* typeof a === 'object', for a truthy a
AuthTypeofObject(a) == a.t \in {"object", "hostile"}

\* a request object (one without params has neither auth value)
MkRequest(primary, fallback) == [primary |-> primary, fallback |-> fallback, isObject |-> TRUE]

\* null or undefined in the place of a request
NullRequest == [primary |-> AuthUndefined, fallback |-> AuthUndefined, isObject |-> FALSE]

\* how a block completes: normally with a value, or by throwing
Normal(config) == [threw |-> FALSE, config |-> config]
Thrown == [threw |-> TRUE, config |-> MkConfig(EmptyObj, NoServer, EmptyObj)]

\* the try block of extractRequestConfig
ExtractRequestConfigTry(request) ==
    LET first == request.primary
        metaAuth == IF ~AuthTruthy(first) /\ AuthTruthy(request.fallback)
                    THEN request.fallback ELSE first
        config == MkConfig(EmptyObj, NoServer, EmptyObj)
    IN  IF ~request.isObject THEN Thrown
        ELSE IF AuthTruthy(metaAuth) /\ AuthTypeofObject(metaAuth)
        THEN (IF metaAuth.t = "hostile" THEN Thrown
              ELSE Normal(SpreadConfig(config, ExtractConfigFromMetaAuth(metaAuth.f))))
        ELSE Normal(config)

\* extractRequestConfig as a whole: the catch swallows the error and the
\* function returns config
ExtractRequestConfigNoCatch(request) == ExtractRequestConfigTry(request)

ExtractRequestConfigCompletion(request) ==
    LET try == ExtractRequestConfigTry(request)
    IN  IF try.threw THEN Normal(MkConfig(EmptyObj, NoServer, EmptyObj)) ELSE try

\* MCPRestServer.extractRequestConfig: the object it hands getRequestConfig
ExtractRequestConfig(request) == ExtractRequestConfigCompletion(request).config

\* MCPRestServer.extractApiKeyFromRequest
ExtractApiKeyFromRequestFallbackFirst(request) ==
    LET metaAuth == IF AuthTruthy(request.fallback) THEN request.fallback
                    ELSE request.primary
    IN  IF Truthy(Get(metaAuth.f, "api_key")) THEN metaAuth.f["api_key"]
        ELSE IF Truthy(Get(metaAuth.f, "apiKey")) THEN metaAuth.f["apiKey"]
        ELSE UNDEF

ExtractApiKeyFromRequest(request) ==
    LET metaAuth == IF AuthTruthy(request.primary) THEN request.primary
                    ELSE request.fallback
    IN  IF Truthy(Get(metaAuth.f, "api_key")) THEN metaAuth.f["api_key"]
        ELSE IF Truthy(Get(metaAuth.f, "apiKey")) THEN metaAuth.f["apiKey"]
        ELSE UNDEF

\* MCPRestServer.getRequestConfig, against the server's current Configuration
GetRequestConfig(request, baseline) ==
    GetConfig(ExtractRequestConfig(request), baseline)

-----------------------------------------------------------------------------
(* Text.  A message is a sequence of fragments; a template literal        *)
(* concatenates them.                                                      *)

\* String.prototype.includes, for a fragment
Includes(message, fragment) == \E n \in 1..Len(message) : message[n] = fragment

\* MCPRestServer.wrapError: `${message}: ${error.message}`
WrapError(message, error) == message \o error

-----------------------------------------------------------------------------
(* The tools, their arguments and the adapter (MediaService and, behind   *)
(* it, the MiniMax API: an external collaborator whose every call either  *)
(* resolves with a result or rejects with an error).                       *)

RetriedTools == {"text_to_audio", "list_voices", "text_to_image",
                 "generate_video", "voice_clone", "image_to_video"}
SingleShotTools == {"query_video_generation", "music_generation", "voice_design"}
RoutedTools == RetriedTools \cup SingleShotTools \cup {"play_audio"}

\* the argument properties the handlers read or write
MkArgs(model, firstFrameImage, prompt, outputFile, inputFilePath, asyncMode) ==
    [model |-> model, firstFrameImage |-> firstFrameImage, prompt |-> prompt,
     outputFile |-> outputFile, inputFilePath |-> inputFilePath, asyncMode |-> asyncMode]

NoArgs == MkArgs(UNDEF, UNDEF, UNDEF, <<>>, UNDEF, UNDEF)

\* Date.now() readings
Times == {"t1", "t2"}

AdapterErrors == {<<"socket hang up">>, <<"status 500">>,
                  <<"2038", "voice clone user forbidden">>,
                  <<"should complete real-name verification", "1002">>}
AdapterResults == {<<"result-1">>, <<"result-2">>}

Outcomes == {[ok |-> TRUE, val |-> v] : v \in AdapterResults}
            \cup {[ok |-> FALSE, val |-> e] : e \in AdapterErrors}

\* what one invocation did, in order
\* (for an adapter call: the api called, the Configuration it reads, the arguments)
MkEvent(ev, api, seen, args, ms, val) ==
    [ev |-> ev, api |-> api, seen |-> seen, args |-> args, ms |-> ms, val |-> val]

NoConfig == MkConfig(EmptyObj, NoServer, EmptyObj)

DelayEv(ms) == MkEvent("delay", 0, NoConfig, NoArgs, ms, <<>>)
ResolveEv(val) == MkEvent("resolve", 0, NoConfig, NoArgs, 0, val)
RejectEv(error) == MkEvent("reject", 0, NoConfig, NoArgs, 0, error)

IdleInvocation ==
    [pc |-> "idle", method |-> "", tool |-> "", args |-> NoArgs,
     request |-> MkRequest(AuthUndefined, AuthUndefined),
     cfg |-> 0, api |-> 0, mediaService |-> 0,
     attempt |-> 0, trace |-> <<>>, result |-> <<>>]

-----------------------------------------------------------------------------
(* The REST tool handlers.  r is the invocation's record, h the heap the  *)
(* adapter reads its Configuration from.                                   *)

\* the mediaService a handler calls: its own parameter
HandlerMediaServiceShared(r) == restMediaService

HandlerMediaService(r) == r.mediaService

\* await mediaService.<operation>(args): the adapter is called with the
\* Configuration its api was built from
CallAdapter(r, h) ==
    LET ms == HandlerMediaService(r)
    IN  [r EXCEPT !.pc = "awaitAdapter",
                  !.trace = Append(@, MkEvent("call", ms, h[ms], r.args, 0, <<>>))]

\* return result
ReturnResult(r, content) == [r EXCEPT !.pc = "returned", !.result = content]

\* the call-tool handler's catch: throw this.wrapError(`Failed to call tool ...`)
CallToolCatch(r, error) ==
    [r EXCEPT !.pc = "thrown",
              !.result = WrapError(<<"Failed to call tool", r.tool>>, error)]

\* RETRY_DELAY * Math.pow(2, attempt - 1)
RetryDelayFlat(attempt) == RETRY_DELAY

RetryDelay(attempt) == RETRY_DELAY * Pow2(attempt - 1)

\* the catch block of a retried handler: delay and re-enter while
\* attempt < MAX_RETRY_ATTEMPTS, else throw the wrapped error
RetryOrThrowOffByOne(r, error, what) ==
    IF r.attempt <= MAX_RETRY_ATTEMPTS
    THEN [r EXCEPT !.pc = "awaitDelay",
                   !.trace = Append(@, DelayEv(RetryDelay(r.attempt)))]
    ELSE CallToolCatch(r, WrapError(<<what>>, error))

RetryOrThrow(r, error, what) ==
    IF r.attempt < MAX_RETRY_ATTEMPTS
    THEN [r EXCEPT !.pc = "awaitDelay",
                   !.trace = Append(@, DelayEv(RetryDelay(r.attempt)))]
    ELSE CallToolCatch(r, WrapError(<<what>>, error))

HandleTextToAudioCatch(r, error) == RetryOrThrow(r, error, "Failed to generate speech")
HandleListVoicesCatch(r, error) == RetryOrThrow(r, error, "Failed to list voices")
HandleTextToImageCatch(r, error) == RetryOrThrow(r, error, "Failed to generate image")
HandleGenerateVideoCatch(r, error) == RetryOrThrow(r, error, "Failed to generate video")

\* the real-name verification test of handleVoiceClone
IsVerificationErrorFirstOnly(errorMessage) ==
    Includes(errorMessage, "voice clone user forbidden")

IsVerificationError(errorMessage) ==
    \/ Includes(errorMessage, "voice clone user forbidden")
    \/ Includes(errorMessage, "should complete real-name verification")

verificationUrl == "https://platform.minimaxi.com/user-center/basic-information"

VerificationGuidance ==
    <<"Voice cloning failed: Real-name verification required. To use voice cloning feature, please:",
      "1. Visit MiniMax platform (", verificationUrl, ")",
      "2. Complete the real-name verification process",
      "3. Try again after verification is complete",
      "This requirement is for security and compliance purposes.">>

HandleVoiceCloneCatch(r, error) ==
    IF IsVerificationError(error)
    THEN ReturnResult(r, VerificationGuidance)
    ELSE RetryOrThrow(r, error, "Failed to clone voice")

HandleImageToVideoCatchNoRetry(r, error) ==
    CallToolCatch(r, WrapError(<<"Failed to generate video">>, error))

HandleImageToVideoCatch(r, error) == RetryOrThrow(r, error, "Failed to generate video")

\* handleImageToVideo up to its await: defaults written into args, the
\* firstFrameImage check, the generated output file name
HandleImageToVideoRegenerate(r, h, now) ==
    LET a1 == IF ~Truthy(r.args.model) THEN [r.args EXCEPT !.model = "I2V-01"] ELSE r.args
        r1 == [r EXCEPT !.args = a1]
    IN  IF ~Truthy(a1.firstFrameImage)
        THEN HandleImageToVideoCatch(r1, <<"Missing required parameter: firstFrameImage">>)
        ELSE IF a1.outputFile = <<>> \/ a1.outputFile[1] = "i2v"
        THEN IF a1.prompt = UNDEF
             THEN HandleImageToVideoCatch(r1,
                      <<"TypeError: Cannot read properties of undefined (reading 'substring')">>)
             ELSE CallAdapter([r1 EXCEPT !.args.outputFile = <<"i2v", a1.prompt, now>>], h)
        ELSE CallAdapter(r1, h)

HandleImageToVideo(r, h, now) ==
    LET a1 == IF ~Truthy(r.args.model) THEN [r.args EXCEPT !.model = "I2V-01"] ELSE r.args
        r1 == [r EXCEPT !.args = a1]
    IN  IF ~Truthy(a1.firstFrameImage)
        THEN HandleImageToVideoCatch(r1, <<"Missing required parameter: firstFrameImage">>)
        ELSE IF a1.outputFile = <<>>
        THEN IF a1.prompt = UNDEF
             THEN HandleImageToVideoCatch(r1,
                      <<"TypeError: Cannot read properties of undefined (reading 'substring')">>)
             ELSE CallAdapter([r1 EXCEPT !.args.outputFile = <<"i2v", a1.prompt, now>>], h)
        ELSE CallAdapter(r1, h)

\* handleVideoGenerationQuery, handleGenerateMusic, handleVoiceDesign: no retry
HandleVideoGenerationQueryCatchRetried(r, error) ==
    RetryOrThrow(r, error, "Failed to query video generation")

HandleVideoGenerationQueryCatch(r, error) ==
    CallToolCatch(r, WrapError(<<"Failed to query video generation">>, error))
HandleGenerateMusicCatch(r, error) ==
    CallToolCatch(r, WrapError(<<"Failed to generate music">>, error))
HandleVoiceDesignCatch(r, error) ==
    CallToolCatch(r, WrapError(<<"Failed to design voice">>, error))

\* handlePlayAudio
HandlePlayAudio(r) == ReturnResult(r, <<"Playing audio", r.args.inputFilePath>>)

\* the switch of the call-tool handler, entered at r.attempt: each handler
\* runs to its first await, its return or its throw
Handle(r, h, now) ==
    CASE r.tool = "play_audio" -> HandlePlayAudio(r)
      [] r.tool = "image_to_video" -> HandleImageToVideo(r, h, now)
      [] r.tool \in (RetriedTools \cup SingleShotTools) \ {"image_to_video"} -> CallAdapter(r, h)
      [] OTHER -> CallToolCatch(r, <<"Unknown tool", r.tool>>)

\* the catch block the adapter's rejection lands in
Catch(r, error) ==
    CASE r.tool = "text_to_audio" -> HandleTextToAudioCatch(r, error)
      [] r.tool = "list_voices" -> HandleListVoicesCatch(r, error)
      [] r.tool = "text_to_image" -> HandleTextToImageCatch(r, error)
      [] r.tool = "generate_video" -> HandleGenerateVideoCatch(r, error)
      [] r.tool = "voice_clone" -> HandleVoiceCloneCatch(r, error)
      [] r.tool = "image_to_video" -> HandleImageToVideoCatch(r, error)
      [] r.tool = "query_video_generation" -> HandleVideoGenerationQueryCatch(r, error)
      [] r.tool = "music_generation" -> HandleGenerateMusicCatch(r, error)
      [] r.tool = "voice_design" -> HandleVoiceDesignCatch(r, error)

-----------------------------------------------------------------------------
(* MCPRestServer: construction, updateConfig and the call-tool handler    *)

\* what ConfigManager.getConfig(customConfig) can hand a constructor
BaselineConfigs ==
    {MkConfig([apiKey |-> k, apiHost |-> host, basePath |-> "/base", resourceMode |-> m],
              sv[1], sv[2]) :
        k \in {"", "A"}, host \in {"", "H"}, m \in {"url", "local"},
        sv \in {<<NoServer, EmptyObj>>,
                <<"object", [mode |-> "stdio", port |-> "8080", endpoint |-> "/mcp"]>>}}

\* the requests a client sends: no auth fragment, one under params._meta.auth,
\* one under params.meta.auth
Requests ==
    {MkRequest(AuthUndefined, AuthUndefined),
     MkRequest(AuthObject([api_key |-> "B"]), AuthUndefined),
     MkRequest(AuthUndefined, AuthObject([apiKey |-> "C", resource_mode |-> "local"]))}

ToolNames == RoutedTools \cup {"no_such_tool"}

ArgsFor(tool) ==
    IF tool = "image_to_video"
    THEN {MkArgs(UNDEF, "frame.png", "a cat", <<>>, UNDEF, UNDEF),
          MkArgs("I2V-01-live", "frame.png", UNDEF, <<"out.mp4">>, UNDEF, UNDEF),
          MkArgs(UNDEF, UNDEF, "a cat", <<>>, UNDEF, UNDEF),
          MkArgs(UNDEF, "frame.png", UNDEF, <<>>, UNDEF, UNDEF)}
    ELSE IF tool = "play_audio"
    THEN {MkArgs(UNDEF, UNDEF, UNDEF, <<>>, "a.mp3", UNDEF)}
    ELSE {MkArgs("m", UNDEF, "a cat", <<>>, UNDEF, UNDEF)}

Invocations == {"a", "b"}

\* no helper called yet
NoHelperCall == [fn |-> "", input |-> <<>>, output |-> <<>>]

\* MCPServer.start() not yet called
NotStarted == [pc |-> "idle", error |-> "", transport |-> <<>>]

\* one updateConfig call: the server it was made on, the object passed, that
\* object after the call, and the Configuration the server has after it
UpdateCall(server, given, left, config) ==
    [server |-> server, given |-> given, left |-> left, config |-> config]

\* MCPServer: the constructor's and updateConfig's "new MiniMaxAPI(this.config)" and the
\* seven capability APIs wrapping it: each named by the Configuration object
\* it holds
BuildApisMusicKept(id) ==
    [api |-> id, ttsApi |-> id, imageApi |-> id, videoApi |-> id,
     voiceCloneApi |-> id, voiceApi |-> id, voiceDesignApi |-> id,
     musicApi |-> stdioConfig]

BuildApis(id) ==
    [api |-> id, ttsApi |-> id, imageApi |-> id, videoApi |-> id,
     voiceCloneApi |-> id, voiceApi |-> id, voiceDesignApi |-> id, musicApi |-> id]

\* MCPRestServer.initializeConfig: REST mode forced on the resolved object
RestInitializeConfigDefaults(c) ==
    [c EXCEPT !.srvSt = "object",
              !.srv = [mode |-> TRANSPORT_MODE_REST, port |-> DEFAULT_SERVER_PORT,
                       endpoint |-> DEFAULT_SERVER_ENDPOINT]]

RestInitializeConfig(c) ==
    IF HasServer(c)
    THEN [c EXCEPT !.srv = SpreadFn(@, [mode |-> TRANSPORT_MODE_REST])]
    ELSE [c EXCEPT !.srvSt = "object",
                   !.srv = [mode |-> TRANSPORT_MODE_REST, port |-> DEFAULT_SERVER_PORT,
                            endpoint |-> DEFAULT_SERVER_ENDPOINT]]

\* new MCPRestServer(customConfig)
RestConstructor(customConfigs) ==
    /\ \E c \in customConfigs : heap = <<RestInitializeConfig(c)>>
    /\ restConfig = 1
    /\ restApi = 1
    /\ restMediaService = 1
    /\ inv = [i \in Invocations |-> IdleInvocation]
    /\ stdioConfig = 0
    /\ stdioApis = BuildApis(0)
    /\ call = IdleInvocation
    /\ startup = NotStarted
    /\ updates = <<>>
    /\ helperCall = NoHelperCall

Init == RestConstructor(BaselineConfigs)

\* const requestConfig = this.getRequestConfig(request): the heap with the
\* request's Configuration allocated, the server's own left as it is
NewRequestConfigInPlace(request) ==
    LET merged == GetRequestConfig(request, heap[restConfig])
    IN  Append([heap EXCEPT ![restConfig] = merged], merged)

NewRequestConfig(request) == Append(heap, GetRequestConfig(request, heap[restConfig]))

\* the call-tool request handler up to its first await: a Configuration and
\* an api for this request, then the switch on the tool name
CallTool(i, request, tool, args, now) ==
    /\ inv[i].pc = "idle"
    /\ LET requestConfig == Len(heap) + 1
           r == [IdleInvocation EXCEPT !.method = "tools/call",
                                       !.tool = tool, !.args = args, !.request = request,
                                       !.cfg = requestConfig, !.api = requestConfig,
                                       !.mediaService = requestConfig, !.attempt = 1]
       IN  /\ heap' = NewRequestConfig(request)
           /\ inv' = [inv EXCEPT ![i] = Handle(r, heap', now)]
    /\ UNCHANGED <<helperCall, restConfig, restApi, restMediaService, stdioVars, updates>>

\* the adapter call an invocation awaits settles
AdapterSettles(i, outcome) ==
    /\ inv[i].pc = "awaitAdapter"
    /\ inv' = [inv EXCEPT ![i] =
                 IF outcome.ok
                 THEN ReturnResult([inv[i] EXCEPT !.trace = Append(@, ResolveEv(outcome.val))],
                                   outcome.val)
                 ELSE Catch([inv[i] EXCEPT !.trace = Append(@, RejectEv(outcome.val))],
                            outcome.val)]
    /\ UNCHANGED <<helperCall, heap, restConfig, restApi, restMediaService, stdioVars, updates>>

\* the retry timer fires: the handler re-enters itself with attempt + 1
TimerFires(i, now) ==
    /\ inv[i].pc = "awaitDelay"
    /\ inv' = [inv EXCEPT ![i] = Handle([inv[i] EXCEPT !.attempt = @ + 1], heap, now)]
    /\ UNCHANGED <<helperCall, heap, restConfig, restApi, restMediaService, stdioVars, updates>>

\* the resource and prompt requests
ResourceMethods == {"resources/list", "resources/read", "prompts/list", "prompts/get"}

\* what each of the four handlers answers: an empty list, or the wrapped
\* "does not exist" error
ListResources(r) == ReturnResult(r, <<>>)
ReadResource(r) ==
    [r EXCEPT !.pc = "thrown",
              !.result = WrapError(<<"Failed to read resource">>,
                                   <<"Resource does not exist", "file:///a">>)]
ListPrompts(r) == ReturnResult(r, <<>>)
GetPrompt(r) ==
    [r EXCEPT !.pc = "thrown",
              !.result = WrapError(<<"Failed to get prompt">>,
                                   <<"Prompt does not exist", "p">>)]

\* a list-resources, read-resource, list-prompts or get-prompt request: a
\* Configuration for the request, then the answer
ResourceRequest(i, request, method) ==
    /\ inv[i].pc = "idle"
    /\ LET requestConfig == Len(heap) + 1
           r == [IdleInvocation EXCEPT !.method = method, !.request = request,
                                       !.cfg = requestConfig]
       IN  /\ heap' = NewRequestConfig(request)
           /\ inv' = [inv EXCEPT ![i] =
                        CASE method = "resources/list" -> ListResources(r)
                          [] method = "resources/read" -> ReadResource(r)
                          [] method = "prompts/list" -> ListPrompts(r)
                          [] method = "prompts/get" -> GetPrompt(r)]
    /\ UNCHANGED <<helperCall, restConfig, restApi, restMediaService, stdioVars, updates>>

\* the names of the tools array the list-tools handler returns, in order
ListedTools ==
    <<"text_to_audio", "list_voices", "play_audio", "text_to_image", "generate_video",
      "voice_clone", "image_to_video", "music_generation", "voice_design">>

ListTools(r) == ReturnResult(r, ListedTools)

\* a list-tools request: the handler reads nothing of the request
ListToolsRequest(i) ==
    /\ inv[i].pc = "idle"
    /\ inv' = [inv EXCEPT ![i] = ListTools([IdleInvocation EXCEPT !.method = "tools/list"])]
    /\ UNCHANGED <<helperCall, heap, restConfig, restApi, restMediaService, stdioVars, updates>>

\* one request, every tool, every adapter behaviour
Next ==
    \/ ListToolsRequest("a")
    \/ \E request \in Requests, method \in ResourceMethods :
          ResourceRequest("a", request, method)
    \/ \E request \in Requests, tool \in ToolNames, now \in Times :
          \E args \in ArgsFor(tool) : CallTool("a", request, tool, args, now)
    \/ \E outcome \in Outcomes : AdapterSettles("a", outcome)
    \/ \E now \in Times : TimerFires("a", now)

Spec == Init /\ [][Next]_vars

\* the same, where every awaited adapter call settles and every retry timer
\* fires
SpecLive ==
    /\ Init
    /\ [][Next]_vars
    /\ WF_vars(\E outcome \in Outcomes : AdapterSettles("a", outcome))
    /\ WF_vars(\E now \in Times : TimerFires("a", now))

-----------------------------------------------------------------------------
(* extractRequestConfig on every shape of request                          *)

\* the values a client can put at params._meta.auth and at params.meta.auth
AuthValues ==
    {AuthUndefined, AuthNull, AuthString, AuthHostile,
     AuthObject(EmptyObj),
     AuthObject([token |-> "T"]),
     AuthObject([api_key |-> "B"]),
     AuthObject([apiKey |-> "C", resource_mode |-> "local"]),
     AuthObject([api_key |-> "D", apiKey |-> "E", api_host |-> "H3", base_path |-> "/p"])}

ExtractInputs ==
    {MkRequest(primary, fallback) : primary \in AuthValues, fallback \in AuthValues}
    \cup {NullRequest}

\* this.extractRequestConfig(request): the object it returns is allocated,
\* or the call throws
ExtractRequestConfigCall(i, request) ==
    /\ inv[i].pc = "idle"
    /\ LET completion == ExtractRequestConfigCompletion(request)
           r == [IdleInvocation EXCEPT !.method = "extractRequestConfig",
                                       !.request = request, !.cfg = Len(heap) + 1]
       IN  /\ heap' = Append(heap, completion.config)
           /\ inv' = [inv EXCEPT ![i] =
                        [r EXCEPT !.pc = IF completion.threw THEN "thrown" ELSE "returned"]]
    /\ UNCHANGED <<helperCall, restConfig, restApi, restMediaService, stdioVars, updates>>

NextExtract == \E request \in ExtractInputs : ExtractRequestConfigCall("a", request)

SpecExtract == Init /\ [][NextExtract]_vars

-----------------------------------------------------------------------------
(* Concurrent call-tool requests and updateConfig on MCPRestServer        *)

\* the Partial<Config> objects an administrator passes to updateConfig
RestUpdateInputs ==
    {MkConfig([apiKey |-> "Z"], NoServer, EmptyObj),
     MkConfig([resourceMode |-> "local"], "object", [mode |-> "stdio", port |-> "9000"])}

\* MCPRestServer.updateConfig
RestUpdateConfig(newConfig) ==
    /\ Len(updates) < MaxUpdates
    /\ LET merged == GetConfig(newConfig, heap[restConfig])
           forced == IF HasServer(merged)
                     THEN [merged EXCEPT !.srv = SpreadFn(@, [mode |-> TRANSPORT_MODE_REST])]
                     ELSE merged
       IN  /\ heap' = Append(heap, forced)
           /\ updates' = Append(updates, UpdateCall("rest", newConfig, newConfig, forced))
    /\ restConfig' = Len(heap) + 1
    /\ restApi' = Len(heap) + 1
    /\ restMediaService' = Len(heap) + 1
    /\ UNCHANGED <<helperCall, inv, stdioVars>>

ConcBaselines == {c \in BaselineConfigs : Field(c, "apiKey") = "A" /\ Field(c, "apiHost") = "H"
                                           /\ Field(c, "resourceMode") = "url" /\ HasServer(c)}
ConcTools == {"text_to_audio"}
ConcOutcomes == {o \in Outcomes : o.val \in {<<"result-1">>, <<"socket hang up">>}}

InitConc == RestConstructor(ConcBaselines)

\* two call-tool requests in flight at once, updateConfig among them
NextConc ==
    \/ \E i \in Invocations, request \in Requests, method \in ResourceMethods :
          ResourceRequest(i, request, method)
    \/ \E i \in Invocations, request \in Requests, tool \in ConcTools :
          \E args \in ArgsFor(tool) : CallTool(i, request, tool, args, "t1")
    \/ \E i \in Invocations, outcome \in ConcOutcomes : AdapterSettles(i, outcome)
    \/ \E i \in Invocations : TimerFires(i, "t1")
    \/ \E newConfig \in RestUpdateInputs : RestUpdateConfig(newConfig)

SpecConc == InitConc /\ [][NextConc]_vars

-----------------------------------------------------------------------------
(* MCPServer (STDIO): the tool handlers registered by registerTools       *)

StdioTools == {"text_to_audio", "list_voices", "play_audio", "voice_clone",
               "text_to_image", "generate_video", "image_to_video",
               "query_video_generation", "music_generation", "voice_design"}

ERROR_API_KEY_REQUIRED == "ERROR_API_KEY_REQUIRED"
ERROR_API_HOST_REQUIRED == "ERROR_API_HOST_REQUIRED"

\* the capability API a handler calls (this.<name>, read when the call is made)
CapabilityApi(tool) ==
    CASE tool = "list_voices" -> stdioApis.voiceApi
      [] tool = "voice_clone" -> stdioApis.voiceCloneApi
      [] tool = "text_to_image" -> stdioApis.imageApi
      [] tool \in {"generate_video", "image_to_video", "query_video_generation"} -> stdioApis.videoApi
      [] tool = "music_generation" -> stdioApis.musicApi
      [] tool = "voice_design" -> stdioApis.voiceDesignApi

\* the prefix of each handler's failure text
FailurePrefix(tool) ==
    CASE tool = "text_to_audio" -> "Failed to generate audio"
      [] tool = "list_voices" -> "Failed to list voices"
      [] tool = "play_audio" -> "Failed to play audio"
      [] tool = "voice_clone" -> "Voice cloning failed"
      [] tool = "text_to_image" -> "Failed to generate image"
      [] tool \in {"generate_video", "image_to_video"} -> "Failed to generate video"
      [] tool = "query_video_generation" -> "Failed to query video generation"
      [] tool = "music_generation" -> "Failed to generate music"
      [] tool = "voice_design" -> "Failed to design voice"

\* the catch block of a handler: a returned text result
StdioCatchPlain(c, error) ==
    ReturnResult(c, <<FailurePrefix(c.tool)>> \o error)

StdioCatch(c, error) ==
    IF c.tool = "voice_clone" /\ IsVerificationError(error)
    THEN ReturnResult(c, VerificationGuidance)
    ELSE ReturnResult(c, <<FailurePrefix(c.tool)>> \o error)

\* the resource mode a handler formats its result with: text_to_audio keeps
\* the outputFormat it read before the call, the others read
\* this.config.resourceMode after the await
FormatMode(c) ==
    IF c.tool = "text_to_audio"
    THEN Field(c.trace[1].seen, "resourceMode")
    ELSE Field(heap[stdioConfig], "resourceMode")

\* the success text of each handler
SuccessText(c, result) ==
    LET url == FormatMode(c) = RESOURCE_MODE_URL
    IN  CASE c.tool = "text_to_audio" ->
                IF url THEN <<"Success. Audio URL:">> \o result
                       ELSE <<"Audio file saved:">> \o result
          [] c.tool = "list_voices" -> <<"Success. System voices:">> \o result
          [] c.tool = "play_audio" -> result
          [] c.tool = "voice_clone" -> <<"Voice cloning successful:">> \o result
          [] c.tool = "text_to_image" ->
                IF url THEN <<"Success. Image URL(s):">> \o result
                       ELSE <<"Image(s) saved:">> \o result
          [] c.tool \in {"generate_video", "image_to_video"} ->
                IF Truthy(c.args.asyncMode)
                THEN <<"Success. Video generation task submitted: Task ID:">> \o result
                ELSE IF url THEN <<"Success. Video URL:">> \o result
                            ELSE <<"Video saved:">> \o result
          [] c.tool = "query_video_generation" ->
                IF result[1] = "Success"
                THEN (IF url THEN <<"Success. Video URL:">> \o result
                             ELSE <<"Success. Video saved as:">> \o result)
                ELSE <<"Video generation task is still processing: Task ID:">>
          [] c.tool = "music_generation" ->
                IF url THEN <<"Success. Music URL:">> \o result
                       ELSE <<"Success. Music saved as:">> \o result
          [] c.tool = "voice_design" ->
                IF url THEN <<"Success. Voice ID:", "Voice URL:">> \o result
                       ELSE <<"Success. Voice ID:", "Voice saved as:">> \o result

\* the file name a handler generates when params.outputFile is not given
WithOutputFile(c, now) ==
    IF c.args.outputFile # <<>> THEN c
    ELSE CASE c.tool = "text_to_image" -> [c EXCEPT !.args.outputFile = <<"image", c.args.prompt, now>>]
           [] c.tool = "generate_video" -> [c EXCEPT !.args.outputFile = <<"video", c.args.prompt, now>>]
           [] c.tool = "image_to_video" -> [c EXCEPT !.args.outputFile = <<"i2v", c.args.prompt, now>>]
           [] OTHER -> c

StdioArgsFor(tool) ==
    IF tool \in {"generate_video", "image_to_video"}
    THEN {MkArgs("m", "frame.png", "a cat", <<>>, UNDEF, UNDEF),
          MkArgs("m", "frame.png", "a cat", <<"out.mp4">>, UNDEF, "true")}
    ELSE IF tool = "play_audio"
    THEN {MkArgs(UNDEF, UNDEF, UNDEF, <<>>, "a.mp3", UNDEF)}
    ELSE {MkArgs("m", UNDEF, "a cat", <<>>, UNDEF, UNDEF)}

StdioOutcomes == Outcomes \cup {[ok |-> TRUE, val |-> <<"Success">>]}

\* new MCPServer(customConfig): initializeConfig keeps the resolved object
StdioConstructor(customConfigs) ==
    /\ \E c \in customConfigs : heap = <<c>>
    /\ stdioConfig = 1
    /\ stdioApis = BuildApis(1)
    /\ call = IdleInvocation
    /\ restConfig = 0
    /\ restApi = 0
    /\ restMediaService = 0
    /\ inv = [i \in Invocations |-> IdleInvocation]
    /\ startup = NotStarted
    /\ updates = <<>>
    /\ helperCall = NoHelperCall

InitStdio == StdioConstructor(BaselineConfigs)

\* a tool handler up to its await
StdioCallTool(tool, args, now) ==
    /\ call.pc = "idle"
    /\ LET c == [IdleInvocation EXCEPT !.tool = tool, !.args = args, !.attempt = 1,
                                       !.cfg = stdioConfig]
           config == heap[stdioConfig]
       IN  CASE tool = "text_to_audio" ->
                  IF ~Truthy(Field(config, "apiKey"))
                  THEN /\ call' = StdioCatch(c, <<ERROR_API_KEY_REQUIRED>>)
                       /\ heap' = heap
                  ELSE LET requestConfig ==
                               MkConfig([apiKey |-> Field(config, "apiKey"),
                                         apiHost |-> Field(config, "apiHost"),
                                         resourceMode |-> Field(config, "resourceMode")],
                                        NoServer, EmptyObj)
                           requestApi == Len(heap) + 1
                       IN  /\ heap' = Append(heap, requestConfig)
                           /\ call' = [c EXCEPT !.pc = "awaitAdapter", !.api = requestApi,
                                         !.trace = <<MkEvent("call", requestApi, requestConfig,
                                                             args, 0, <<>>)>>]
             [] tool = "play_audio" ->
                  /\ call' = [c EXCEPT !.pc = "awaitAdapter",
                                !.trace = <<MkEvent("call", 0, NoConfig, args, 0, <<>>)>>]
                  /\ heap' = heap
             [] OTHER ->
                  LET c1 == WithOutputFile(c, now)
                      api == CapabilityApi(tool)
                  IN  /\ call' = [c1 EXCEPT !.pc = "awaitAdapter", !.api = api,
                                    !.trace = <<MkEvent("call", api, heap[api], c1.args, 0, <<>>)>>]
                      /\ heap' = heap
    /\ UNCHANGED <<helperCall, stdioConfig, stdioApis, startup, restVars, updates>>

\* the awaited capability call settles: the handler formats its result
StdioAdapterSettles(outcome) ==
    /\ call.pc = "awaitAdapter"
    /\ call' = IF outcome.ok
               THEN ReturnResult([call EXCEPT !.trace = Append(@, ResolveEv(outcome.val))],
                                 SuccessText(call, outcome.val))
               ELSE StdioCatch([call EXCEPT !.trace = Append(@, RejectEv(outcome.val))],
                               outcome.val)
    /\ UNCHANGED <<helperCall, heap, stdioConfig, stdioApis, startup, restVars, updates>>

\* the Partial<Config> objects a caller passes to MCPServer.updateConfig
StdioUpdateInputs ==
    {MkConfig([apiKey |-> "Z"], NoServer, EmptyObj),
     MkConfig([apiKey |-> ""], NoServer, EmptyObj),
     MkConfig([apiKey |-> UNDEF], NoServer, EmptyObj),
     MkConfig([resourceMode |-> "local"], NoServer, EmptyObj),
     MkConfig([resourceMode |-> "url"], "undefined", EmptyObj),
     MkConfig(EmptyObj, "object", [mode |-> "rest"]),
     MkConfig([apiHost |-> "H2"], "object", [port |-> "9000", endpoint |-> "/x"])}

\* the first step of updateConfig: this.config.server is assigned on the
\* object that is current, merged key by key when both have a server
MergeServerDefaults(current, newConfig) ==
    IF HasServer(newConfig) /\ HasServer(current)
    THEN [current EXCEPT !.srv = SpreadFn(current.srv, newConfig.srv)]
    ELSE IF HasServer(newConfig)
    THEN [current EXCEPT !.srvSt = "object",
                         !.srv = [mode |-> TRANSPORT_MODE_REST, port |-> DEFAULT_SERVER_PORT,
                                  endpoint |-> DEFAULT_SERVER_ENDPOINT]]
    ELSE current

MergeServer(current, newConfig) ==
    IF HasServer(newConfig) /\ HasServer(current)
    THEN [current EXCEPT !.srv = SpreadFn(current.srv, newConfig.srv)]
    ELSE IF HasServer(newConfig)
    THEN [current EXCEPT !.srvSt = "object", !.srv = newConfig.srv]
    ELSE current

\* delete newConfig.server (in the two branches that run it): the caller's
\* object after the call
DeleteServer(newConfig) ==
    IF HasServer(newConfig)
    THEN [newConfig EXCEPT !.srvSt = NoServer, !.srv = EmptyObj]
    ELSE newConfig

\* MCPServer.updateConfig: the server property of the current object is
\* assigned, then a new object is spread from it and from what is left of
\* newConfig, and the APIs are rebuilt
StdioUpdateConfig(newConfig) ==
    /\ Len(updates) < MaxUpdates
    /\ LET assigned == MergeServer(heap[stdioConfig], newConfig)
           rest == DeleteServer(newConfig)
           config == SpreadConfig(assigned, rest)
       IN  /\ heap' = Append([heap EXCEPT ![stdioConfig] = assigned], config)
           /\ updates' = Append(updates, UpdateCall("stdio", newConfig, rest, config))
    /\ stdioConfig' = Len(heap) + 1
    /\ stdioApis' = BuildApis(Len(heap) + 1)
    /\ UNCHANGED <<helperCall, call, startup, restVars>>

NextStdio ==
    \/ \E tool \in StdioTools, now \in Times :
          \E args \in StdioArgsFor(tool) : StdioCallTool(tool, args, now)
    \/ \E outcome \in StdioOutcomes : StdioAdapterSettles(outcome)
    \/ \E newConfig \in StdioUpdateInputs : StdioUpdateConfig(newConfig)

SpecStdio == InitStdio /\ [][NextStdio]_vars

\* the tool handlers of an MCPServer whose configuration is left alone
NextStdioCalls ==
    \/ \E tool \in StdioTools, now \in Times :
          \E args \in StdioArgsFor(tool) : StdioCallTool(tool, args, now)
    \/ \E outcome \in StdioOutcomes : StdioAdapterSettles(outcome)

SpecStdioCalls == InitStdio /\ [][NextStdioCalls]_vars

-----------------------------------------------------------------------------
(* MCPServer.start, and updateConfig called again and again on both servers *)

\* MCPServer.startStdioServer: the transport it connects
StartStdioServer(c) ==
    LET mode == ServerField(c, "mode")
        port == IF Truthy(ServerField(c, "port")) THEN ServerField(c, "port")
                ELSE DEFAULT_SERVER_PORT
        endpoint == IF Truthy(ServerField(c, "endpoint")) THEN ServerField(c, "endpoint")
                    ELSE DEFAULT_SERVER_ENDPOINT
    IN  IF mode = TRANSPORT_MODE_REST
        THEN <<"RestServerTransport", port, endpoint>>
        ELSE <<"StdioServerTransport">>

\* MCPServer.start on the Configuration c: the two checks, then the transport
StartOutcomeHostFirst(c) ==
    IF ~Truthy(Field(c, "apiHost"))
    THEN [pc |-> "thrown", error |-> ERROR_API_HOST_REQUIRED, transport |-> <<>>]
    ELSE IF ~Truthy(Field(c, "apiKey"))
    THEN [pc |-> "thrown", error |-> ERROR_API_KEY_REQUIRED, transport |-> <<>>]
    ELSE [pc |-> "returned", error |-> "", transport |-> StartStdioServer(c)]

StartOutcome(c) ==
    IF ~Truthy(Field(c, "apiKey"))
    THEN [pc |-> "thrown", error |-> ERROR_API_KEY_REQUIRED, transport |-> <<>>]
    ELSE IF ~Truthy(Field(c, "apiHost"))
    THEN [pc |-> "thrown", error |-> ERROR_API_HOST_REQUIRED, transport |-> <<>>]
    ELSE [pc |-> "returned", error |-> "", transport |-> StartStdioServer(c)]

Start ==
    /\ startup.pc = "idle"
    /\ startup' = StartOutcome(heap[stdioConfig])
    /\ UNCHANGED <<helperCall, heap, stdioConfig, stdioApis, call, restVars, updates>>

\* an MCPRestServer and an MCPServer, each constructed from the same
\* resolved Configuration
InitUpdate ==
    /\ \E c \in BaselineConfigs : heap = <<RestInitializeConfig(c), c>>
    /\ restConfig = 1
    /\ restApi = 1
    /\ restMediaService = 1
    /\ inv = [i \in Invocations |-> IdleInvocation]
    /\ stdioConfig = 2
    /\ stdioApis = BuildApis(2)
    /\ call = IdleInvocation
    /\ startup = NotStarted
    /\ updates = <<>>
    /\ helperCall = NoHelperCall

\* a server fragment with a key whose value is undefined
ServerFragments ==
    {MkConfig(EmptyObj, "object", [mode |-> "rest", port |-> UNDEF])}

\* the objects a caller passed to updateConfig of that server before, as
\* the call left them
PassedBefore(server) ==
    {updates[n].left : n \in {m \in 1..Len(updates) : updates[m].server = server}}

NextUpdate ==
    \/ \E newConfig \in RestUpdateInputs \cup PassedBefore("rest") :
          RestUpdateConfig(newConfig)
    \/ \E newConfig \in StdioUpdateInputs \cup ServerFragments \cup PassedBefore("stdio") :
          StdioUpdateConfig(newConfig)
    \/ Start

SpecUpdate == InitUpdate /\ [][NextUpdate]_vars

-----------------------------------------------------------------------------
(* MCPServer.getConfigFromFile                                             *)

\* what a helper hands back: a value, or an exception
Returns(value) == [threw |-> FALSE, value |-> value]
Throws == [threw |-> TRUE, value |-> [t |-> "undefined", f |-> EmptyObj]]

\* the values getConfigFromFile returns: undefined, or the object JSON.parse built
FileUndefined == [t |-> "undefined", f |-> EmptyObj]
FileObject(f) == [t |-> "object", f |-> f]

\* a path of the file system: nothing there, something that cannot be read,
\* or a file with its text (a sequence of tokens)
Missing == [st |-> "missing", content |-> <<>>]
Unreadable == [st |-> "unreadable", content |-> <<>>]
File(content) == [st |-> "file", content |-> content]

\* JSON.parse(fileContent): {} and {"k":"v"} are read, anything else is a
\* SyntaxError
JsonParse(content) ==
    IF content = <<"{", "}">> THEN Returns(FileObject(EmptyObj))
    ELSE IF /\ Len(content) = 5
            /\ content[1] = "{" /\ content[3] = ":" /\ content[5] = "}"
            /\ content[2] \notin {"{", "}", ":"} /\ content[4] \notin {"{", "}", ":"}
    THEN Returns(FileObject([k \in {content[2]} |-> content[4]]))
    ELSE Throws

\* the try block of getConfigFromFile: param is what getParamValue("config_path")
\* returns, env is process.env[ENV_CONFIG_PATH]
GetConfigFromFileTry(param, env, files) ==
    LET configPath == IF Truthy(param) THEN param
                      ELSE IF Truthy(env) THEN env
                      ELSE "./minimax-config.json"
    IN  IF files[configPath].st = "missing" THEN Returns(FileUndefined)
        ELSE IF files[configPath].st = "unreadable" THEN Throws
        ELSE JsonParse(files[configPath].content)

\* getConfigFromFile as a whole: the catch returns undefined
GetConfigFromFileNoCatch(param, env, files) == GetConfigFromFileTry(param, env, files)

GetConfigFromFile(param, env, files) ==
    LET try == GetConfigFromFileTry(param, env, files)
    IN  IF try.threw THEN Returns(FileUndefined) ELSE try

Paths == {"p.json", "e.json", "./minimax-config.json"}

\* JSON.stringify of the objects the files are written from
Stringify(f) ==
    IF DOMAIN f = {} THEN <<"{", "}">>
    ELSE LET k == CHOOSE x \in DOMAIN f : TRUE IN <<"{", k, ":", f[k], "}">>

\* the object a configuration file at that path is written from
Written(path) == [apiKey |-> path]

\* what can be at a path: nothing, an unreadable entry, a configuration file,
\* an empty object, a file cut short
FilesAt(path) ==
    {Missing, Unreadable, File(Stringify(Written(path))), File(Stringify(EmptyObj)),
     File(SubSeq(Stringify(Written(path)), 1, 4))}

FileSystems == {files \in [Paths -> UNION {FilesAt(p) : p \in Paths}] :
                   \A p \in Paths : files[p] \in FilesAt(p)}

\* a call of getConfigFromFile
GetConfigFromFileCall(param, env, files) ==
    /\ helperCall' = [fn |-> "getConfigFromFile",
                      input |-> [param |-> param, env |-> env, files |-> files],
                      output |-> GetConfigFromFile(param, env, files)]
    /\ UNCHANGED <<heap, restVars, stdioVars, updates>>

NextFile ==
    \E param \in {UNDEF, "", "p.json"}, env \in {UNDEF, "", "e.json"}, files \in FileSystems :
        GetConfigFromFileCall(param, env, files)

\* an MCPServer and the calls of its file reader
InitFile == StdioConstructor(ConcBaselines)

SpecFile == InitFile /\ [][NextFile]_vars

-----------------------------------------------------------------------------
(* MusicAPI: ensureValidSampleRate, ensureValidBitrate, ensureValidChannel, *)
(* ensureValidFormat                                                        *)

\* A JavaScript number is held in halves (h is twice the number), so that 1.5
\* has a place between the channels 1 and 2; NaN and the infinities are apart
N(whole) == 2 * whole
Num(h) == [t |-> "number", h |-> h]
NoNumber == [t |-> "undefined", h |-> 0]
NaN == [t |-> "NaN", h |-> 0]
PlusInfinity == [t |-> "Infinity", h |-> 0]
MinusInfinity == [t |-> "-Infinity", h |-> 0]

Abs(n) == IF n < 0 THEN -n ELSE n

validSampleRates == <<N(16000), N(24000), N(32000), N(44100)>>
validBitrates == <<N(32000), N(64000), N(128000), N(256000)>>
validChannels == <<N(1), N(2)>>
validFormats == {"mp3", "pcm", "wav"}

\* valid.includes(x)
IncludesNumber(valid, x) == x.t = "number" /\ \E n \in 1..Len(valid) : valid[n] = x.h

\* Math.abs(curr - x) < Math.abs(prev - x): false when x is NaN (the
\* differences are NaN) or infinite (both sides are Infinity)
NearerOrEqual(curr, prev, x) == x.t = "number" /\ Abs(curr - x.h) <= Abs(prev - x.h)

Nearer(curr, prev, x) == x.t = "number" /\ Abs(curr - x.h) < Abs(prev - x.h)

\* valid.reduce((prev, curr) => nearer ? curr : prev), from the first element on
RECURSIVE Closest(_, _)
Closest(valid, x) ==
    IF Len(valid) = 1 THEN valid[1]
    ELSE LET prev == Closest(SubSeq(valid, 1, Len(valid) - 1), x)
             curr == valid[Len(valid)]
         IN  IF Nearer(curr, prev, x) THEN curr ELSE prev

\* the shape the three numeric normalisers share
EnsureValidNumber(valid, default, x) ==
    IF x.t = "undefined" THEN Num(default)
    ELSE IF ~IncludesNumber(valid, x) THEN Num(Closest(valid, x))
    ELSE x

EnsureValidSampleRate(sampleRate) == EnsureValidNumber(validSampleRates, N(32000), sampleRate)
EnsureValidBitrate(bitrate) == EnsureValidNumber(validBitrates, N(128000), bitrate)
EnsureValidChannel(channel) == EnsureValidNumber(validChannels, N(1), channel)

EnsureValidFormat(format) ==
    IF ~Truthy(format) THEN "mp3"
    ELSE IF format \notin validFormats THEN "mp3"
    ELSE format

MusicHelpers == {"ensureValidSampleRate", "ensureValidBitrate", "ensureValidChannel",
                 "ensureValidFormat"}

Special == {NoNumber, NaN, PlusInfinity, MinusInfinity}

\* the arguments tried: the valid values, the midpoints and their neighbours,
\* values below and above the range, 1.5 channels
MusicInputs(fn) ==
    CASE fn = "ensureValidSampleRate" ->
            Special \cup {Num(N(w)) : w \in {-1, 0, 8000, 16000, 19999, 20000, 20001, 24000,
                                             28000, 32000, 38049, 38050, 38051, 44100,
                                             48000, 96000}}
      [] fn = "ensureValidBitrate" ->
            Special \cup {Num(N(w)) : w \in {0, 32000, 47999, 48000, 48001, 64000, 96000,
                                             128000, 192000, 192001, 256000, 320000}}
      [] fn = "ensureValidChannel" ->
            Special \cup {Num(h) : h \in {-2, 0, 1, 2, 3, 4, 5, 6}}
      [] fn = "ensureValidFormat" ->
            {UNDEF, "", "mp3", "pcm", "wav", "flac", "MP3"}

ApplyMusicHelper(fn, input) ==
    CASE fn = "ensureValidSampleRate" -> EnsureValidSampleRate(input)
      [] fn = "ensureValidBitrate" -> EnsureValidBitrate(input)
      [] fn = "ensureValidChannel" -> EnsureValidChannel(input)
      [] fn = "ensureValidFormat" -> EnsureValidFormat(input)

\* a call of one of the normalisers
EnsureValidCall(fn, input) ==
    /\ helperCall' = [fn |-> fn, input |-> input, output |-> ApplyMusicHelper(fn, input)]
    /\ UNCHANGED <<heap, restVars, stdioVars, updates>>

NextMusic == \E fn \in MusicHelpers : \E input \in MusicInputs(fn) : EnsureValidCall(fn, input)

SpecMusic == InitStdio /\ [][NextMusic]_vars

-----------------------------------------------------------------------------
(* Reading an invocation's record *)

Done(r) == r.pc \in {"returned", "thrown"}

EventsOf(r, kind) == SelectSeq(r.trace, LAMBDA e : e.ev = kind)

\* the kinds of the events, in order
Kinds(r) == [n \in 1..Len(r.trace) |-> r.trace[n].ev]

\* the waits, in order
DelaysOf(r) == [n \in 1..Len(EventsOf(r, "delay")) |-> EventsOf(r, "delay")[n].ms]

\* an error message with one of the two recognized terminal-domain substrings
TerminalDomain(error) ==
    \/ \E n \in 1..Len(error) : error[n] = "voice clone user forbidden"
    \/ \E n \in 1..Len(error) : error[n] = "should complete real-name verification"

\* the adapter was called and every call so far was rejected with a retryable error
AllRetryableFailures(r) ==
    /\ EventsOf(r, "resolve") = <<>>
    /\ EventsOf(r, "reject") # <<>>
    /\ \A n \in 1..Len(r.trace) : r.trace[n].ev = "reject" => ~TerminalDomain(r.trace[n].val)

-----------------------------------------------------------------------------
(* The claims *)

\* C1: a dispatch of a retried tool whose adapter fails retryably on every
\* attempt is: call, 1000 ms, call, 2000 ms, call, and then it fails.
C1_RetrySchedule ==
    \A i \in Invocations :
        (Done(inv[i]) /\ inv[i].tool \in RetriedTools /\ AllRetryableFailures(inv[i]))
        => /\ inv[i].pc = "thrown"
           /\ Kinds(inv[i]) = <<"call", "reject", "delay", "call", "reject", "delay",
                                "call", "reject">>
           /\ DelaysOf(inv[i]) = <<1000, 2000>>

C1_Witness ==
    \E i \in Invocations :
        /\ Done(inv[i]) /\ inv[i].tool = "list_voices" /\ AllRetryableFailures(inv[i])
        /\ Len(EventsOf(inv[i], "call")) = 3

\* C2: in a voice_clone dispatch a rejection with a terminal-domain message,
\* on whichever attempt, is the last thing that happens: the dispatch has
\* returned the real-name-verification guidance with the verification URL.
C2_VoiceCloneShortCircuit ==
    \A i \in Invocations :
        inv[i].tool = "voice_clone" =>
            \A n \in 1..Len(inv[i].trace) :
                (inv[i].trace[n].ev = "reject" /\ TerminalDomain(inv[i].trace[n].val))
                => /\ n = Len(inv[i].trace)
                   /\ inv[i].pc = "returned"
                   /\ Includes(inv[i].result,
                        "Voice cloning failed: Real-name verification required. To use voice cloning feature, please:")
                   /\ Includes(inv[i].result,
                        "https://platform.minimaxi.com/user-center/basic-information")

C2_Witness ==
    \E i \in Invocations :
        /\ inv[i].tool = "voice_clone" /\ inv[i].attempt = 3 /\ inv[i].pc = "returned"
        /\ inv[i].trace[Len(inv[i].trace)].ev = "reject"
        /\ Includes(inv[i].trace[Len(inv[i].trace)].val, "should complete real-name verification")
        /\ DelaysOf(inv[i]) = <<1000, 2000>>

\* C3: for every routed tool but query_video_generation and play_audio, a
\* retryable rejection of the first adapter call is followed by a delay and
\* then a second adapter call.
C3_EveryToolRetried ==
    \A i \in Invocations :
        (/\ inv[i].tool \in RoutedTools \ {"query_video_generation", "play_audio"}
         /\ Len(inv[i].trace) >= 2
         /\ inv[i].trace[1].ev = "call"
         /\ inv[i].trace[2].ev = "reject" /\ ~TerminalDomain(inv[i].trace[2].val))
        => /\ Len(inv[i].trace) >= 3
           /\ inv[i].trace[3].ev = "delay"
           /\ inv[i].pc = "awaitDelay" \/ (Len(inv[i].trace) >= 4 /\ inv[i].trace[4].ev = "call")

\* C4: for every retried tool a rejection with a terminal-domain message is
\* the last thing that happens and is answered with the remediation
\* guidance: one adapter call, no delay.
C4_TerminalNeverRetried ==
    \A i \in Invocations :
        inv[i].tool \in RetriedTools =>
            \A n \in 1..Len(inv[i].trace) :
                (inv[i].trace[n].ev = "reject" /\ TerminalDomain(inv[i].trace[n].val))
                => /\ n = Len(inv[i].trace)
                   /\ inv[i].pc = "returned"
                   /\ Includes(inv[i].result,
                        "https://platform.minimaxi.com/user-center/basic-information")

\* C5: when three retryable failures exhaust the budget of a retried tool,
\* the dispatch returns a result (it does not throw) that carries the
\* third error's message.
C5_ExhaustionReturnsResult ==
    \A i \in Invocations :
        (/\ Done(inv[i]) /\ inv[i].tool \in RetriedTools /\ AllRetryableFailures(inv[i])
         /\ Len(EventsOf(inv[i], "reject")) = 3)
        => /\ inv[i].pc = "returned"
           /\ \E k \in 1..Len(inv[i].result) :
                 SubSeq(inv[i].result, k, Len(inv[i].result)) = EventsOf(inv[i], "reject")[3].val

\* C6: a dispatch of a name outside the routing table calls no adapter,
\* waits no delay and has returned a result naming the tool.
C6_UnknownToolResult ==
    \A i \in Invocations :
        (inv[i].method = "tools/call" /\ inv[i].tool \notin RoutedTools)
        => /\ inv[i].trace = <<>>
           /\ inv[i].pc = "returned"
           /\ Includes(inv[i].result, inv[i].tool)

\* C7: a dispatch whose resolved Configuration has an empty apiKey or an
\* empty apiHost calls no adapter, waits no delay and has returned a result.
C7_ConfigurationError ==
    \A i \in Invocations :
        (/\ inv[i].method = "tools/call"
         /\ \/ ~Truthy(Field(heap[inv[i].cfg], "apiKey"))
            \/ ~Truthy(Field(heap[inv[i].cfg], "apiHost")))
        => /\ inv[i].trace = <<>>
           /\ inv[i].pc = "returned"

\* C8: with two call-tool requests in flight, every adapter call of each is
\* made through the api built from that request's own resolved
\* Configuration, never through the other request's or the server's, and
\* carries the API key embedded in that request's metadata.
C8_CredentialIsolation ==
    \A i \in Invocations : \A n \in 1..Len(inv[i].trace) :
        inv[i].trace[n].ev = "call" =>
            /\ inv[i].trace[n].api = inv[i].cfg
            /\ inv[i].trace[n].api # restMediaService
            /\ inv[i].trace[n].seen = heap[inv[i].cfg]
            /\ \A j \in Invocations \ {i} : inv[i].trace[n].api # inv[j].cfg
            /\ ExtractApiKeyFromRequest(inv[i].request) # UNDEF
               => Field(inv[i].trace[n].seen, "apiKey") = ExtractApiKeyFromRequest(inv[i].request)

C8_Witness ==
    /\ inv["a"].pc = "awaitAdapter" /\ inv["b"].pc = "awaitAdapter"
    /\ Len(EventsOf(inv["a"], "call")) = 3 /\ Len(EventsOf(inv["b"], "call")) = 2
    /\ ExtractApiKeyFromRequest(inv["a"].request) = "B"
    /\ ExtractApiKeyFromRequest(inv["b"].request) = "C"
    /\ inv["a"].cfg > inv["b"].cfg
    /\ updates # <<>>

\* C9: an MCPServer call in flight when updateConfig runs is unaffected by
\* it: its adapter call went through the api of the Configuration in force
\* at dispatch, and its result has the URL wording exactly when that
\* Configuration's resourceMode is 'url'.
C9_InFlightUnaffected ==
    (/\ call.pc = "returned"
     /\ call.tool = "generate_video" /\ ~Truthy(call.args.asyncMode)
     /\ EventsOf(call, "resolve") # <<>>)
    => /\ call.trace[1].api = call.cfg
       /\ Includes(call.result, "Success. Video URL:")
            <=> Field(call.trace[1].seen, "resourceMode") = "url"

\* C10: updateConfig publishes a new Configuration object and leaves the one
\* that was current before the call with the field values it had.
C10_ReplacedWholesale ==
    [][stdioConfig' # stdioConfig => heap'[stdioConfig] = heap[stdioConfig]]_vars

\* C11: a REST request (call-tool, list or read resources, list or get
\* prompts, with or without an auth fragment, and every later step of its
\* handling) leaves MCPRestServer.config the same object with the same
\* field values; only updateConfig changes it.
C11_BaselineUnchanged ==
    [][updates' = updates
         => restConfig' = restConfig /\ heap'[restConfig] = heap[restConfig]]_vars

C11_Witness ==
    /\ updates = <<>>
    /\ inv["a"].method = "prompts/get" /\ inv["a"].pc = "thrown"
    /\ ExtractApiKeyFromRequest(inv["a"].request) = "C"
    /\ inv["b"].method = "tools/call" /\ Done(inv["b"])
    /\ ExtractApiKeyFromRequest(inv["b"].request) = "B"
    /\ Field(heap[inv["b"].cfg], "apiKey") = "B"
    /\ Field(heap[restConfig], "apiKey") = "A"

\* C15: a query_video_generation or play_audio dispatch makes at most one
\* adapter call and never waits a retry delay, whatever the adapter does.
C15_ExemptFromRetry ==
    \A i \in Invocations :
        inv[i].tool \in {"query_video_generation", "play_audio"}
        => /\ Len(EventsOf(inv[i], "call")) <= 1
           /\ EventsOf(inv[i], "delay") = <<>>

C15_Witness ==
    \E i \in Invocations :
        /\ inv[i].tool = "query_video_generation" /\ inv[i].pc = "thrown"
        /\ Kinds(inv[i]) = <<"call", "reject">>
        /\ inv[i].trace[2].val = <<"socket hang up">>

\* C16: when the adapter of a retried tool fails retryably on attempts
\* 1..k-1 and succeeds on attempt k, k is 1, 2 or 3, the dispatch has
\* returned exactly the result of attempt k, it made k adapter calls and
\* waited the first k-1 of the delays 1000 ms, 2000 ms, and the success is
\* the last thing that happened.
C16_SuccessAfterRetries ==
    \A i \in Invocations :
        (/\ inv[i].tool \in RetriedTools
         /\ EventsOf(inv[i], "resolve") # <<>>
         /\ \A n \in 1..Len(inv[i].trace) :
               inv[i].trace[n].ev = "reject" => ~TerminalDomain(inv[i].trace[n].val))
        => LET k == Len(EventsOf(inv[i], "call"))
               last == inv[i].trace[Len(inv[i].trace)]
           IN  /\ k \in 1..3
               /\ Kinds(inv[i]) =
                    SubSeq(<<"call", "reject", "delay", "call", "reject", "delay", "call">>,
                           1, 3 * k - 2) \o <<"resolve">>
               /\ DelaysOf(inv[i]) = SubSeq(<<1000, 2000>>, 1, k - 1)
               /\ inv[i].pc = "returned"
               /\ inv[i].result = last.val

C16_Witness ==
    \E i \in Invocations :
        /\ inv[i].tool = "text_to_image" /\ inv[i].pc = "returned"
        /\ Len(EventsOf(inv[i], "call")) = 3
        /\ DelaysOf(inv[i]) = <<1000, 2000>>
        /\ inv[i].result = <<"result-2">>

\* C17: an image_to_video dispatch whose arguments make the handler itself
\* raise a TypeError (a first frame, no output file and no prompt to derive
\* one from) has thrown at once: no adapter call, no delay, no further
\* attempt.
C17_LocalErrorFatal ==
    \A i \in Invocations :
        (/\ inv[i].method = "tools/call" /\ inv[i].tool = "image_to_video"
         /\ Truthy(inv[i].args.firstFrameImage)
         /\ inv[i].args.outputFile = <<>> /\ inv[i].args.prompt = UNDEF)
        => /\ inv[i].pc = "thrown"
           /\ inv[i].trace = <<>>

C19_ExtractNeverThrows ==
    [][\A i \in Invocations :
          (inv[i].pc = "idle" /\ inv'[i].method = "extractRequestConfig")
          => /\ inv'[i].pc = "returned"
             /\ inv'[i].request.primary.t # "object" /\ inv'[i].request.fallback.t # "object"
                => heap'[inv'[i].cfg] = NoConfig
             /\ restConfig' = restConfig /\ restApi' = restApi
             /\ restMediaService' = restMediaService
             /\ SubSeq(heap', 1, Len(heap)) = heap]_vars

C19_Witness ==
    /\ inv["a"].method = "extractRequestConfig" /\ inv["a"].pc = "returned"
    /\ inv["a"].request.primary = AuthHostile
    /\ heap[inv["a"].cfg] = NoConfig

\* C12: after MCPServer.updateConfig(newConfig) each top-level field has
\* newConfig's value when newConfig defines it (the empty string included)
\* and the value it had before when newConfig does not, a key that is absent
\* or undefined-valued counting as not defined.
C12_TopLevelOverride ==
    [][(Len(updates') > Len(updates) /\ updates'[Len(updates')].server = "stdio")
       => LET newConfig == updates'[Len(updates')].given
          IN  \A k \in TopKeys :
                 Field(heap'[stdioConfig'], k) =
                     IF Defines(newConfig.top, k) THEN newConfig.top[k]
                     ELSE Field(heap[stdioConfig], k)]_vars

\* C13: after MCPServer.updateConfig with a server fragment, each of
\* server.mode, server.port and server.endpoint has the fragment's value
\* when the fragment defines it and the value it had before when it does
\* not; so a fragment that defines only mode leaves port and endpoint.
C13_ServerKeyByKey ==
    [][(/\ Len(updates') > Len(updates) /\ updates'[Len(updates')].server = "stdio"
        /\ HasServer(updates'[Len(updates')].given))
       => LET fragment == updates'[Len(updates')].given.srv
          IN  \A k \in ServerKeys :
                 ServerField(heap'[stdioConfig'], k) =
                     IF Defines(fragment, k) THEN fragment[k]
                     ELSE ServerField(heap[stdioConfig], k)]_vars

\* C14: when updateConfig is called twice in a row on a server with the
\* same override (the same object again, as the first call left it, or an
\* equal one), the Configuration after the second call equals, field for
\* field and in its server fields, the one after the first.
C14_UpdateIdempotent ==
    \A n \in 1..(Len(updates) - 1) :
        (/\ updates[n + 1].server = updates[n].server
         /\ updates[n + 1].given \in {updates[n].given, updates[n].left})
        => updates[n + 1].config = updates[n].config

C14_Witness ==
    /\ Len(updates) = 2
    /\ updates[1].server = "stdio" /\ updates[2].server = "stdio"
    /\ updates[1].given = MkConfig([apiHost |-> "H2"], "object",
                                   [port |-> "9000", endpoint |-> "/x"])
    /\ updates[2].given = updates[1].left /\ updates[1].left # updates[1].given
    /\ updates[2].config = updates[1].config
    /\ ServerField(updates[2].config, "port") = "9000"

\* C20: a call of MCPServer.start() fails with the API-key-required error
\* when apiKey is empty, otherwise with the API-host-required error when
\* apiHost is empty, in both cases without a transport; only with both
\* non-empty does it connect one.
C20_StartValidates ==
    [][(startup.pc = "idle" /\ startup'.pc # "idle")
       => LET c == heap[stdioConfig]
          IN  /\ ~Truthy(Field(c, "apiKey"))
                 => /\ startup'.pc = "thrown" /\ startup'.transport = <<>>
                    /\ startup'.error = ERROR_API_KEY_REQUIRED
              /\ (Truthy(Field(c, "apiKey")) /\ ~Truthy(Field(c, "apiHost")))
                 => /\ startup'.pc = "thrown" /\ startup'.transport = <<>>
                    /\ startup'.error = ERROR_API_HOST_REQUIRED
              /\ (Truthy(Field(c, "apiKey")) /\ Truthy(Field(c, "apiHost")))
                 => /\ startup'.pc = "returned" /\ startup'.transport # <<>>]_vars

C20_Witness ==
    /\ startup.pc = "thrown" /\ startup.error = ERROR_API_KEY_REQUIRED
    /\ Field(heap[stdioConfig], "apiKey") = "" /\ Field(heap[stdioConfig], "apiHost") = ""
    /\ updates # <<>>

\* C21: within one call-tool dispatch the Configuration is resolved once
\* (one object allocated, before any adapter call), every adapter call goes
\* through the api built from it and reads it, and every call carries the
\* arguments of the first call; for image_to_video these include the
\* defaulted model and the output file name generated on the first attempt.
C21_SameConfigAndArgs ==
    inv["a"].method = "tools/call"
    => /\ Len(heap) = 2 /\ inv["a"].cfg = 2
       /\ \A n \in 1..Len(EventsOf(inv["a"], "call")) :
             LET e == EventsOf(inv["a"], "call")[n]
             IN  /\ e.api = inv["a"].cfg
                 /\ e.seen = heap[inv["a"].cfg]
                 /\ e.args = EventsOf(inv["a"], "call")[1].args
                 /\ inv["a"].tool = "image_to_video"
                    => Truthy(e.args.model) /\ e.args.outputFile # <<>>

C21_Witness ==
    /\ inv["a"].tool = "image_to_video"
    /\ Len(EventsOf(inv["a"], "call")) = 3
    /\ EventsOf(inv["a"], "call")[3].args.model = "I2V-01"
    /\ EventsOf(inv["a"], "call")[3].args.outputFile = <<"i2v", "a cat", "t2">>
    /\ Field(heap[inv["a"].cfg], "apiKey") = "B"

\* what C22 bounds: adapter calls, delays and the attempt counter
WithinRetryBudget(r) ==
    /\ Len(EventsOf(r, "call")) <= 3
    /\ Len(EventsOf(r, "delay")) <= 2
    /\ r.method = "tools/call" => r.attempt \in 1..3

\* C22: whatever the adapter answers, a dispatch makes at most 3 adapter
\* calls and waits at most 2 delays with its attempt counter in 1..3, and,
\* every adapter call settling and every timer firing, a dispatch that has
\* begun eventually returns or throws.
C22_BoundedAndCompletes ==
    /\ [](\A i \in Invocations : WithinRetryBudget(inv[i]))
    /\ (inv["a"].method = "tools/call") ~> Done(inv["a"])

C22_Witness ==
    /\ inv["a"].tool = "voice_clone" /\ inv["a"].pc = "returned"
    /\ inv["a"].attempt = 3
    /\ Kinds(inv["a"]) = <<"call", "reject", "delay", "call", "reject", "delay",
                           "call", "reject">>
    /\ TerminalDomain(inv["a"].trace[8].val)

\* C23: the adapter a tool handler calls sees the apiKey, apiHost, basePath
\* and resourceMode of the server's resolved Configuration; the STDIO
\* text_to_audio handler's adapter sees the server's basePath.
C23_AdapterSeesServerConfig ==
    (/\ call.trace # <<>> /\ call.trace[1].ev = "call"
     /\ call.tool # "play_audio")
    => \A k \in TopKeys :
          Field(call.trace[1].seen, k) = Field(heap[call.cfg], k)

\* C24: getConfigFromFile never throws. It reads the path given by the
\* config_path parameter when that is set, else the one in the environment
\* variable when that is set, else './minimax-config.json'; it returns
\* undefined when nothing is there, when the entry cannot be read or when
\* the text is not JSON, and the object the file was written from otherwise.
C24_ConfigFileNeverThrows ==
    helperCall.fn = "getConfigFromFile"
    => LET in == helperCall.input
           path == IF in.param \notin {UNDEF, ""} THEN in.param
                   ELSE IF in.env \notin {UNDEF, ""} THEN in.env
                   ELSE "./minimax-config.json"
           file == in.files[path]
           objects == {f \in {Written(path), EmptyObj} : file = File(Stringify(f))}
       IN  /\ ~helperCall.output.threw
           /\ helperCall.output.value =
                 IF objects = {} THEN FileUndefined
                 ELSE FileObject(CHOOSE f \in objects : TRUE)

C24_Witness ==
    /\ helperCall.fn = "getConfigFromFile"
    /\ helperCall.input.param = "" /\ helperCall.input.env = "e.json"
    /\ helperCall.input.files["p.json"] = File(Stringify(Written("p.json")))
    /\ helperCall.input.files["e.json"] = File(Stringify(Written("e.json")))
    /\ helperCall.input.files["./minimax-config.json"] = Unreadable
    /\ helperCall.output = Returns(FileObject([apiKey |-> "e.json"]))

\* C25: the tool names the REST call-tool handler routes, the names the REST
\* list-tools handler advertises and the names the STDIO server registers are
\* one and the same set.
C25_SameToolSet ==
    (inv["a"].method = "tools/list" /\ inv["a"].pc = "returned")
    => /\ {inv["a"].result[n] : n \in 1..Len(inv["a"].result)} = RoutedTools
       /\ RoutedTools = StdioTools

\* C26 as stated: a STDIO tool handler calls its adapter at most once, never
\* waits and never throws, and answers every adapter failure with its failure
\* prefix followed by the error message.
C26_FailurePrefixAlways ==
    /\ Len(EventsOf(call, "call")) <= 1
    /\ EventsOf(call, "delay") = <<>>
    /\ call.pc # "thrown"
    /\ EventsOf(call, "reject") # <<>>
       => /\ call.pc = "returned"
          /\ call.result = <<FailurePrefix(call.tool)>> \o EventsOf(call, "reject")[1].val

\* C26: a STDIO tool handler calls its adapter at most once, never waits and
\* never throws; it answers an adapter failure with its failure prefix
\* followed by the error message, except that voice_clone answers a
\* real-name verification error with the verification guidance.
C26_SingleShotTextResult ==
    /\ Len(EventsOf(call, "call")) <= 1
    /\ EventsOf(call, "delay") = <<>>
    /\ call.pc # "thrown"
    /\ EventsOf(call, "reject") # <<>>
       => LET error == EventsOf(call, "reject")[1].val
          IN  /\ call.pc = "returned"
              /\ call.result =
                    IF call.tool = "voice_clone" /\ TerminalDomain(error)
                    THEN VerificationGuidance
                    ELSE <<FailurePrefix(call.tool)>> \o error

C26_Witness ==
    /\ call.tool = "voice_clone" /\ call.pc = "returned"
    /\ Kinds(call) = <<"call", "reject">>
    /\ TerminalDomain(call.trace[2].val)
    /\ call.result = VerificationGuidance

\* C27: an image_to_video dispatch without firstFrameImage never calls the
\* adapter; once it is over it has waited 1000 ms and then 2000 ms, made
\* three attempts and thrown an error with the text
\* 'Missing required parameter: firstFrameImage'.
C27_MissingFrameRetried ==
    \A i \in Invocations :
        (/\ inv[i].method = "tools/call" /\ inv[i].tool = "image_to_video"
         /\ ~Truthy(inv[i].args.firstFrameImage))
        => /\ EventsOf(inv[i], "call") = <<>>
           /\ Done(inv[i])
              => /\ inv[i].pc = "thrown" /\ inv[i].attempt = 3
                 /\ Kinds(inv[i]) = <<"delay", "delay">>
                 /\ DelaysOf(inv[i]) = <<1000, 2000>>
                 /\ Includes(inv[i].result, "Missing required parameter: firstFrameImage")

C27_Witness ==
    \E i \in Invocations :
        /\ inv[i].tool = "image_to_video" /\ ~Truthy(inv[i].args.firstFrameImage)
        /\ inv[i].pc = "thrown" /\ DelaysOf(inv[i]) = <<1000, 2000>>

\* C28: whatever updateConfig calls were made, the api and mediaService of an
\* MCPRestServer and the api and seven capability APIs of an MCPServer hold
\* the server's current config object, never a superseded one.
C28_AdaptersFollowConfig ==
    /\ restApi = restConfig
    /\ restMediaService = restApi
    /\ DOMAIN stdioApis = {"api", "ttsApi", "imageApi", "videoApi", "voiceCloneApi",
                           "voiceApi", "voiceDesignApi", "musicApi"}
    /\ \A f \in DOMAIN stdioApis : stdioApis[f] = stdioConfig

C28_Witness ==
    /\ \E n \in 1..Len(updates) : updates[n].server = "rest"
    /\ \E n \in 1..Len(updates) : updates[n].server = "stdio"
    /\ restConfig > 2 /\ restMediaService = restConfig
    /\ stdioConfig > 2 /\ stdioApis.musicApi = stdioConfig

\* C29: the config of an MCPRestServer, when it has a server, has mode 'rest',
\* also after updateConfig calls that ask for another mode; the constructor
\* leaves a server in it, with the port and endpoint that were configured; an
\* updateConfig that gives a port leaves that port in it.
C29_RestModeForced ==
    /\ HasServer(heap[restConfig])
       => ServerField(heap[restConfig], "mode") = TRANSPORT_MODE_REST
    /\ HasServer(heap[1]) /\ ServerField(heap[1], "mode") = TRANSPORT_MODE_REST
    /\ (HasServer(heap[2]) /\ \A n \in 1..Len(updates) : updates[n].server # "stdio")
       => /\ ServerField(heap[1], "port") = ServerField(heap[2], "port")
          /\ ServerField(heap[1], "endpoint") = ServerField(heap[2], "endpoint")
    /\ \A n \in 1..Len(updates) :
          (/\ updates[n].server = "rest" /\ HasServer(updates[n].given)
           /\ Truthy(ServerField(updates[n].given, "port")))
          => /\ ServerField(updates[n].config, "port") = ServerField(updates[n].given, "port")
             /\ ServerField(updates[n].config, "mode") = TRANSPORT_MODE_REST

C29_Witness ==
    /\ Len(updates) > 0 /\ updates[Len(updates)].server = "rest"
    /\ ServerField(updates[Len(updates)].given, "mode") = "stdio"
    /\ ServerField(heap[restConfig], "mode") = TRANSPORT_MODE_REST
    /\ ServerField(heap[restConfig], "port") = "9000"
    /\ ServerField(heap[restConfig], "endpoint") = "/mcp"
    /\ ServerField(heap[1], "port") = "8080"

\* the valid values and the default of a numeric normaliser, as whole numbers
ValidValues(fn) ==
    CASE fn = "ensureValidSampleRate" -> {16000, 24000, 32000, 44100}
      [] fn = "ensureValidBitrate" -> {32000, 64000, 128000, 256000}
      [] fn = "ensureValidChannel" -> {1, 2}

DefaultValue(fn) ==
    CASE fn = "ensureValidSampleRate" -> 32000
      [] fn = "ensureValidBitrate" -> 128000
      [] fn = "ensureValidChannel" -> 1

\* what a numeric normaliser owes its argument
NormalisedNumber(fn, x, out) ==
    LET valid == {2 * v : v \in ValidValues(fn)}
    IN  /\ out.t = "number" /\ out.h \in valid
        /\ (x.t = "number" /\ x.h \in valid) => out = x
        /\ x.t = "undefined" => out.h = 2 * DefaultValue(fn)
        /\ (x.t = "number" /\ x.h \notin valid)
           => \A v \in valid :
                 \/ Abs(out.h - x.h) < Abs(v - x.h)
                 \/ Abs(out.h - x.h) = Abs(v - x.h) /\ out.h <= v

====
